---- MODULE Spec2Model ----
(***************************************************************************)
(* Model of src/databricks-provider.ts: the URL-rewriting fetch wrapper    *)
(* (createDatabricksFetch), the provider factory (createDatabricksProvider)*)
(* and the environment-based factory (createDatabricksProviderFromEnv).    *)
(*                                                                         *)
(* JavaScript strings are modelled as sequences of one-character strings,  *)
(* so that includes/replace/regex matching are computed character by       *)
(* character.  An optional value (undefined or a value) is modelled as a   *)
(* sequence of length 0 or 1.                                              *)
(***************************************************************************)
EXTENDS Naturals, Sequences, FiniteSets

VARIABLES rw, env, fac, inv, net

vars == <<rw, env, fac, inv, net>>

\* ------------------------------------------------------------------ bounds

\* Number of path pieces appended to Origin when enumerating request URLs.
MaxPieces == 3
\* Number of pieces appended to EndpointRoot when enumerating base URLs.
MaxBasePieces == 3
\* Number of concurrently running invocations of the fetch wrapper.
MaxRequests == 2
\* Number of times the rewrite is applied in a row to one URL string.
MaxApply == 2

\* ------------------------------------------------------- string literals

\* '/chat/completions'
ChatCompletions ==
  <<"/","c","h","a","t","/","c","o","m","p","l","e","t","i","o","n","s">>

\* '/invocations'
Invocations == <<"/","i","n","v","o","c","a","t","i","o","n","s">>

Slash == <<"/">>

\* 'databricks'
Databricks == <<"d","a","t","a","b","r","i","c","k","s">>

\* 'API_KEY environment variable is required'
MsgApiKey ==
  <<"A","P","I","_","K","E","Y"," ","e","n","v","i","r","o","n","m","e","n","t"," ","v","a","r","i","a","b","l","e"," ","i","s"," ","r","e","q","u","i","r","e","d">>

\* 'BASE_URL environment variable is required'
MsgBaseUrl ==
  <<"B","A","S","E","_","U","R","L"," ","e","n","v","i","r","o","n","m","e","n","t"," ","v","a","r","i","a","b","l","e"," ","i","s"," ","r","e","q","u","i","r","e","d">>

\* ------------------------------------------------------ string primitives

\* s.startsWith(pat, i-1): pat occurs in s at 1-based position i.
startsWithAt(s, pat, i) ==
  /\ i >= 1
  /\ i + Len(pat) - 1 <= Len(s)
  /\ SubSeq(s, i, i + Len(pat) - 1) = pat

\* String.prototype.includes
includes(s, pat) == \E i \in 1..(Len(s) + 1) : startsWithAt(s, pat, i)

\* String.prototype.indexOf, 1-based; 0 stands for JavaScript's -1.
indexOf(s, pat) ==
  IF includes(s, pat)
  THEN CHOOSE i \in 1..(Len(s) + 1) :
         /\ startsWithAt(s, pat, i)
         /\ \A j \in 1..(i - 1) : ~startsWithAt(s, pat, j)
  ELSE 0

\* Mutant: replaces the last occurrence instead of the first.
replaceLast(s, pat, rep) ==
  IF ~includes(s, pat) THEN s
  ELSE LET i == CHOOSE k \in 1..(Len(s) + 1) :
                  /\ startsWithAt(s, pat, k)
                  /\ \A j \in (k + 1)..(Len(s) + 1) : ~startsWithAt(s, pat, j)
       IN SubSeq(s, 1, i - 1) \o rep \o SubSeq(s, i + Len(pat), Len(s))

\* Mutant: replaces every occurrence (String.prototype.replaceAll).
RECURSIVE replaceAll(_, _, _)
replaceAll(s, pat, rep) ==
  IF ~includes(s, pat) THEN s
  ELSE LET i == indexOf(s, pat)
       IN SubSeq(s, 1, i - 1) \o rep
            \o replaceAll(SubSeq(s, i + Len(pat), Len(s)), pat, rep)

\* String.prototype.replace(pat, rep) with a string pattern and a replacement
\* without '$': only the first occurrence is replaced.
replace(s, pat, rep) ==
  LET i == indexOf(s, pat)
  IN IF i = 0 THEN s
     ELSE SubSeq(s, 1, i - 1) \o rep \o SubSeq(s, i + Len(pat), Len(s))

\* ------------------------------------------------------------ URL Rewriter

\* Lines 40-47: the request target as a URL string.
toURLString(input) ==
  IF input.kind = "string" THEN input.url
  ELSE IF input.kind = "URL" THEN input.href
  ELSE input.url

\* Mutant: the pattern literal is '/completions' instead of '/chat/completions'.
rewriteCompletionsOnly(url) ==
  IF includes(url, <<"/","c","o","m","p","l","e","t","i","o","n","s">>)
  THEN replace(url, <<"/","c","o","m","p","l","e","t","i","o","n","s">>, Invocations)
  ELSE url

\* Lines 49-52.
rewriteURL(url) ==
  IF includes(url, ChatCompletions)
  THEN replace(url, ChatCompletions, Invocations)
  ELSE url

\* Line 54: the arguments of the call to the underlying fetch.
fetchArgs(url, init) == [url |-> url, init |-> init]

\* Mutant: a rejected fetch is swallowed and the invocation resolves.
adoptSwallow(outcome) ==
  IF outcome.kind = "rejected"
  THEN [kind |-> "fulfilled", value |-> "undefined"]
  ELSE outcome

\* Line 54: `return fetch(...)` inside the async function; the invocation's
\* promise adopts the state of the underlying fetch's promise.
adopt(outcome) == outcome

\* Lines 38-54 up to the call of the underlying fetch, as one synchronous run.
databricksFetchCall(input, init) ==
  fetchArgs(rewriteURL(toURLString(input)), init)

\* -------------------------------------------------- inputs of the rewriter

\* 'http://h'
Origin == <<"h","t","t","p",":","/","/","h">>

Pieces ==
  { ChatCompletions, Invocations, Slash, <<"/","m">>,
    <<"/","c","h","a","t">>, <<"/","c","o","m","p","l","e","t","i","o","n","s">>,
    <<"?","q">> }

RECURSIVE Concats(_, _, _)
Concats(prefixes, pieces, n) ==
  IF n = 0 THEN prefixes
  ELSE prefixes \cup
       Concats({p \o x : p \in prefixes, x \in pieces}, pieces, n - 1)

URLs == Concats({Origin}, Pieces, MaxPieces)


\* A Request object's own method, headers and body.
RequestShapes ==
  { [method |-> "GET", headers |-> {}, body |-> <<>>],
    [method |-> "POST",
     headers |-> {<<"content-type", "application/json">>},
     body |-> <<"{}">>] }

\* RequestInit: undefined, or an object whose members are each optional.
Inits ==
  { <<>>,
    <<[method |-> <<>>, headers |-> <<{<<"x-trace", "1">>}>>, body |-> <<>>]>>,
    <<[method |-> <<"POST">>, headers |-> <<{<<"x-trace", "1">>}>>,
       body |-> <<"{\"a\":1}">>]>> }

StringInput(u) == [kind |-> "string", url |-> u]
URLInput(u) == [kind |-> "URL", href |-> u]
RequestInput(u, shape) ==
  [kind |-> "Request", url |-> u, method |-> shape.method,
   headers |-> shape.headers, body |-> shape.body]

InputsOver(urls) ==
  {StringInput(u) : u \in urls} \cup {URLInput(u) : u \in urls}
    \cup {RequestInput(u, sh) : u \in urls, sh \in RequestShapes}

\* A handful of calls for the runs with several concurrent invocations.
FewInputs ==
  { StringInput(Origin \o <<"/","m">> \o ChatCompletions),
    URLInput(Origin \o ChatCompletions \o <<"/","m">> \o ChatCompletions),
    RequestInput(Origin \o <<"/","m">>,
                 [method |-> "GET", headers |-> {}, body |-> <<>>]) }

FewInits ==
  { <<>>,
    <<[method |-> <<"POST">>, headers |-> <<{<<"x-trace", "1">>}>>,
       body |-> <<"{\"a\":1}">>]>> }

\* Errors the underlying fetch may reject with.
NetErrors == {"TypeError: fetch failed", "AbortError"}

ReqIds == 1..MaxRequests

\* -------------------------------------------------------- Provider Factory

\* The leftmost match of /\/invocations\/?$/ in s starts at i: '/invocations',
\* then an optional '/', then the end of the string.  The value is the length
\* of the match, 0 when there is none at i.
matchLenAt(s, i) ==
  IF startsWithAt(s, Invocations \o Slash, i)
       /\ i + Len(Invocations) = Len(s)
  THEN Len(Invocations) + 1
  ELSE IF startsWithAt(s, Invocations, i)
            /\ i + Len(Invocations) - 1 = Len(s)
       THEN Len(Invocations)
       ELSE 0

\* Mutant: the regular expression without its end anchor, /\/invocations\/?/.
stripFirstInvocations(s) ==
  IF ~includes(s, Invocations) THEN s
  ELSE LET i == indexOf(s, Invocations)
           n == IF startsWithAt(s, Invocations \o Slash, i)
                THEN Len(Invocations) + 1 ELSE Len(Invocations)
       IN SubSeq(s, 1, i - 1) \o SubSeq(s, i + n, Len(s))

\* Mutant: the regular expression without the optional slash, /\/invocations$/.
stripNoSlash(s) ==
  IF startsWithAt(s, Invocations, Len(s) - Len(Invocations) + 1)
  THEN SubSeq(s, 1, Len(s) - Len(Invocations))
  ELSE s

\* Line 81: config.baseURL.replace(/\/invocations\/?$/, '').
stripTrailingInvocations(s) ==
  IF \E i \in 1..Len(s) : matchLenAt(s, i) > 0
  THEN LET i == CHOOSE k \in 1..Len(s) :
                  /\ matchLenAt(s, k) > 0
                  /\ \A j \in 1..(k - 1) : matchLenAt(s, j) = 0
       IN SubSeq(s, 1, i - 1) \o SubSeq(s, i + matchLenAt(s, i), Len(s))
  ELSE s

\* Line 85: config.name || 'databricks' (undefined and '' are falsy).
nameOrDefault(name) ==
  IF name = <<>> \/ name[1] = <<>> THEN Databricks ELSE name[1]

\* Lines 79-91: the options handed to createOpenAICompatible, which determine
\* the provider it returns.
createDatabricksProvider(config) ==
  [name |-> nameOrDefault(config.name),
   baseURL |-> stripTrailingInvocations(config.baseURL),
   apiKey |-> config.apiKey,
   headers |-> config.headers,
   fetch |-> "createDatabricksFetch()"]

\* Lines 111 and 115: !value for an environment variable.
falsy(v) == v = <<>> \/ v[1] = <<>>

\* Mutant: only an unset variable is rejected, an empty one is accepted.
fromEnvUnsetOnly(e, name) ==
  IF e.API_KEY = <<>>
  THEN [threw |-> TRUE, message |-> <<MsgApiKey>>, config |-> <<>>, client |-> <<>>]
  ELSE IF e.BASE_URL = <<>>
  THEN [threw |-> TRUE, message |-> <<MsgBaseUrl>>, config |-> <<>>, client |-> <<>>]
  ELSE LET config == [baseURL |-> e.BASE_URL[1], apiKey |-> e.API_KEY[1],
                      headers |-> <<>>, name |-> name]
       IN [threw |-> FALSE, message |-> <<>>, config |-> <<config>>,
           client |-> <<createDatabricksProvider(config)>>]

\* Mutant: the name parameter is not handed on.
fromEnvNoName(e, name) ==
  IF falsy(e.API_KEY)
  THEN [threw |-> TRUE, message |-> <<MsgApiKey>>, config |-> <<>>, client |-> <<>>]
  ELSE IF falsy(e.BASE_URL)
  THEN [threw |-> TRUE, message |-> <<MsgBaseUrl>>, config |-> <<>>, client |-> <<>>]
  ELSE LET config == [baseURL |-> e.BASE_URL[1], apiKey |-> e.API_KEY[1],
                      headers |-> <<>>, name |-> <<>>]
       IN [threw |-> FALSE, message |-> <<>>, config |-> <<config>>,
           client |-> <<createDatabricksProvider(config)>>]

\* Lines 107-124.
createDatabricksProviderFromEnv(e, name) ==
  IF falsy(e.API_KEY)
  THEN [threw |-> TRUE, message |-> <<MsgApiKey>>, config |-> <<>>, client |-> <<>>]
  ELSE IF falsy(e.BASE_URL)
  THEN [threw |-> TRUE, message |-> <<MsgBaseUrl>>, config |-> <<>>, client |-> <<>>]
  ELSE LET config == [baseURL |-> e.BASE_URL[1], apiKey |-> e.API_KEY[1],
                      headers |-> <<>>, name |-> name]
       IN [threw |-> FALSE, message |-> <<>>, config |-> <<config>>,
           client |-> <<createDatabricksProvider(config)>>]

\* The external client's chat request: its URL is the client's base URL with
\* '/chat/completions' appended, and it is issued through the client's fetch.
clientChatRequest(client) ==
  [input |-> StringInput(client.baseURL \o ChatCompletions),
   init |-> <<[method |-> <<"POST">>,
               headers |-> <<{<<"Authorization", client.apiKey>>}
                               \cup (IF client.headers = <<>> THEN {}
                                     ELSE client.headers[1])>>,
               body |-> <<"{\"messages\":[]}">>]>>]

\* ----------------------------------------------- inputs of the factories

\* 'http://h/m'
EndpointRoot == Origin \o <<"/","m">>

BasePieces == { Invocations, Slash, ChatCompletions }

BaseURLs == Concats({EndpointRoot}, BasePieces, MaxBasePieces)

\* 'k'
ApiKey == <<"k">>

\* An optional provider name: undefined, '' or 'n'.
Names == { <<>>, << <<>> >>, << <<"n">> >> }

Configs ==
  { [baseURL |-> b, apiKey |-> ApiKey, headers |-> h, name |-> n] :
      b \in BaseURLs, h \in { <<>>, <<{<<"x-org", "1">>}>> }, n \in Names }

\* process.env: each variable is unset, empty or set.
Envs ==
  { [API_KEY |-> k, BASE_URL |-> b] :
      k \in { <<>>, << <<>> >>, <<ApiKey>> },
      b \in { <<>>, << <<>> >> } \cup { <<u>> : u \in BaseURLs } }

\* ---------------------------------------------------------- initial state

IdleInv == [pc |-> "idle", args |-> <<>>, url |-> <<>>,
            outcome |-> <<>>, result |-> <<>>]

IdleRw == [u |-> <<>>, out |-> <<>>, n |-> 0]

IdleFac == [pc |-> "start", op |-> "none", config |-> <<>>, name |-> <<>>,
            client |-> <<>>, error |-> <<>>]

NoEnv == [API_KEY |-> <<>>, BASE_URL |-> <<>>]

\* -------------------------------------------- steps of one fetch invocation

\* Mutant: `url` is one variable shared by all invocations.
setUrlShared(r, s) == [q \in DOMAIN inv |-> [inv[q] EXCEPT !.url = s]]

\* `url` is a local of the invocation (line 40).
setUrl(r, s) == [inv EXCEPT ![r].url = s]

\* Line 38: the wrapper is invoked with (input, init).
Call(r, inputs, inits) ==
  /\ inv[r].pc = "idle"
  /\ \E input \in inputs, init \in inits :
       inv' = [inv EXCEPT ![r].pc = "called", ![r].args = <<input, init>>]
  /\ UNCHANGED <<rw, env, fac, net>>

\* Lines 40-47.
Convert(r) ==
  /\ inv[r].pc = "called"
  /\ inv' = [setUrl(r, toURLString(inv[r].args[1])) EXCEPT ![r].pc = "converted"]
  /\ UNCHANGED <<rw, env, fac, net>>

\* Lines 49-52.
Rewrite(r) ==
  /\ inv[r].pc = "converted"
  /\ inv' = [setUrl(r, rewriteURL(inv[r].url)) EXCEPT ![r].pc = "rewritten"]
  /\ UNCHANGED <<rw, env, fac, net>>

\* Line 54: the underlying fetch is called.
Fetch(r) ==
  /\ inv[r].pc = "rewritten"
  /\ net' = [net EXCEPT ![r] = Append(@, fetchArgs(inv[r].url, inv[r].args[2]))]
  /\ inv' = [inv EXCEPT ![r].pc = "fetching"]
  /\ UNCHANGED <<rw, env, fac>>

\* The underlying fetch fulfils its promise with a response.
NetResolve(r) ==
  /\ inv[r].pc = "fetching"
  /\ inv' = [inv EXCEPT ![r].pc = "settled",
                        ![r].outcome = <<[kind |-> "fulfilled", value |-> "response"]>>]
  /\ UNCHANGED <<rw, env, fac, net>>

\* The underlying fetch rejects its promise.
NetReject(r) ==
  /\ inv[r].pc = "fetching"
  /\ \E e \in NetErrors :
       inv' = [inv EXCEPT ![r].pc = "settled",
                          ![r].outcome = <<[kind |-> "rejected", value |-> e]>>]
  /\ UNCHANGED <<rw, env, fac, net>>

\* Line 54: the invocation's promise settles as the underlying one did.
Return(r) ==
  /\ inv[r].pc = "settled"
  /\ inv' = [inv EXCEPT ![r].pc = "returned",
                        ![r].result = <<adopt(inv[r].outcome[1])>>]
  /\ UNCHANGED <<rw, env, fac, net>>

\* ------------------------------------------- specification: one invocation

InitFetch ==
  /\ rw = IdleRw
  /\ env = NoEnv
  /\ fac = IdleFac
  /\ inv = [r \in ReqIds |-> IdleInv]
  /\ net = [r \in ReqIds |-> <<>>]

NextFetch ==
  \/ Call(1, InputsOver(URLs), Inits)
  \/ Convert(1)
  \/ Rewrite(1)
  \/ Fetch(1)
  \/ NetResolve(1)
  \/ NetReject(1)
  \/ Return(1)

SpecFetch == InitFetch /\ [][NextFetch]_vars

\* ------------------------------- specification: concurrent invocations

NextConc ==
  \E r \in ReqIds :
    \/ Call(r, FewInputs, FewInits)
    \/ Convert(r)
    \/ Rewrite(r)
    \/ Fetch(r)
    \/ NetResolve(r)
    \/ NetReject(r)
    \/ Return(r)

SpecConc == InitFetch /\ [][NextConc]_vars

\* --------------------------- specification: the rewrite as a pure function

InitRewrite ==
  /\ \E u \in URLs : rw = [u |-> u, out |-> <<u>>, n |-> 0]
  /\ env = NoEnv
  /\ fac = IdleFac
  /\ inv = [r \in ReqIds |-> IdleInv]
  /\ net = [r \in ReqIds |-> <<>>]

\* One more application of the rewrite to the previous result.
Apply ==
  /\ rw.n < MaxApply
  /\ rw' = [rw EXCEPT !.out = Append(@, rewriteURL(rw.out[Len(rw.out)])),
                      !.n = @ + 1]
  /\ UNCHANGED <<env, fac, inv, net>>

NextRewrite == Apply

SpecRewrite == InitRewrite /\ [][NextRewrite]_vars

\* ------------------------------------------- specification: the factories

InitFactory ==
  /\ rw = IdleRw
  /\ env \in Envs
  /\ fac = IdleFac
  /\ inv = [r \in ReqIds |-> IdleInv]
  /\ net = [r \in ReqIds |-> <<>>]

\* createDatabricksProvider(config) is called.
CreateProvider ==
  /\ fac.pc = "start"
  /\ \E config \in Configs :
       fac' = [fac EXCEPT !.pc = "constructed", !.op = "direct",
                          !.config = <<config>>, !.name = config.name,
                          !.client = <<createDatabricksProvider(config)>>]
  /\ UNCHANGED <<rw, env, inv, net>>

\* createDatabricksProviderFromEnv(name) is called.
CreateProviderFromEnv ==
  /\ fac.pc = "start"
  /\ \E name \in Names :
       LET res == createDatabricksProviderFromEnv(env, name)
       IN fac' = [fac EXCEPT !.pc = IF res.threw THEN "threw" ELSE "constructed",
                             !.op = "fromEnv",
                             !.config = res.config, !.name = name,
                             !.client = res.client, !.error = res.message]
  /\ UNCHANGED <<rw, env, inv, net>>

\* The provider issues a chat request through its fetch, which runs up to the
\* call of the underlying fetch.
ClientChat ==
  /\ fac.pc = "constructed"
  /\ LET req == clientChatRequest(fac.client[1])
     IN net' = [net EXCEPT ![1] = Append(@, databricksFetchCall(req.input, req.init))]
  /\ fac' = [fac EXCEPT !.pc = "sent"]
  /\ UNCHANGED <<rw, env, inv>>

NextFactory ==
  \/ CreateProvider
  \/ CreateProviderFromEnv
  \/ ClientChat

SpecFactory == InitFactory /\ [][NextFactory]_vars

\* ===================================================================
\* Properties
\* ===================================================================

\* pat occurs in s at position i, character by character.
OccursAt(s, pat, i) ==
  /\ i >= 1
  /\ i + Len(pat) - 1 <= Len(s)
  /\ \A k \in 1..Len(pat) : s[i + k - 1] = pat[k]

Occurrences(s, pat) == {i \in 1..Len(s) : OccursAt(s, pat, i)}

EndsWith(s, suf) == OccursAt(s, suf, Len(s) - Len(suf) + 1)

DropLast(s, n) == SubSeq(s, 1, Len(s) - n)

\* The string form of a request target.
StringForm(input) ==
  CASE input.kind = "string" -> input.url
    [] input.kind = "URL" -> input.href
    [] input.kind = "Request" -> input.url

\* t is s with the occurrence of pat at position i replaced by rep and every
\* other character the same.
ReplacedAt(s, t, pat, rep, i) ==
  /\ Len(t) + Len(pat) = Len(s) + Len(rep)
  /\ \A k \in 1..(i - 1) : t[k] = s[k]
  /\ OccursAt(t, rep, i)
  /\ \A k \in (i + Len(pat))..Len(s) : t[k + Len(rep) - Len(pat)] = s[k]

\* Position of the first '?' of a URL, Len + 1 when it has none.
QueryStart(u) ==
  IF \E i \in 1..Len(u) : u[i] = "?"
  THEN CHOOSE i \in 1..Len(u) : u[i] = "?" /\ \A j \in 1..(i - 1) : u[j] # "?"
  ELSE Len(u) + 1

\* The path of a URL that starts with Origin, and its query string.
PathOf(u) == SubSeq(u, Len(Origin) + 1, QueryStart(u) - 1)
QueryOf(u) == SubSeq(u, QueryStart(u), Len(u))

\* The request the fetch standard builds from fetch(input, init): the members
\* of init, where present, override those of a Request target; a string or
\* URL target has method GET, no headers and no body of its own.
EffectiveRequest(input, init) ==
  LET own == IF input.kind = "Request"
             THEN [method |-> input.method, headers |-> input.headers,
                   body |-> input.body]
             ELSE [method |-> "GET", headers |-> {}, body |-> <<>>]
  IN IF init = <<>> THEN own
     ELSE [method |-> IF init[1].method = <<>> THEN own.method
                      ELSE init[1].method[1],
           headers |-> IF init[1].headers = <<>> THEN own.headers
                       ELSE init[1].headers[1],
           body |-> IF init[1].body = <<>> THEN own.body ELSE init[1].body]

\* ---------------------------------------------------------------- C1
\* C1: for a string, URL or Request target, the URL passed to the underlying
\* fetch is the target's string form with exactly the first occurrence of
\* '/chat/completions' replaced by '/invocations' and every other character
\* unchanged; without an occurrence it is the string form itself.
C1_FirstOccurrenceReplaced ==
  \A r \in ReqIds : \A k \in 1..Len(net[r]) :
    LET s == StringForm(inv[r].args[1])
        t == net[r][k].url
        occ == Occurrences(s, ChatCompletions)
    IN IF occ = {} THEN t = s
       ELSE \E i \in occ :
              /\ \A j \in occ : i <= j
              /\ ReplacedAt(s, t, ChatCompletions, Invocations, i)

\* A URL-object target with two occurrences has reached the underlying fetch.
C1_Witness ==
  /\ Len(net[1]) = 1
  /\ inv[1].args[1].kind = "URL"
  /\ Cardinality(Occurrences(inv[1].args[1].href, ChatCompletions)) = 2

\* ---------------------------------------------------------------- C2
\* C2 as stated: rewriting an already rewritten URL gives the same string,
\* for every URL string.
C2_IdempotentAll ==
  \A k \in 2..(Len(rw.out) - 1) : rw.out[k + 1] = rw.out[k]

\* C2 amended: rewriting an already rewritten URL gives the same string for
\* every URL string with at most one occurrence of '/chat/completions'.
C2_IdempotentSingleOccurrence ==
  Cardinality(Occurrences(rw.u, ChatCompletions)) <= 1
    => \A k \in 2..(Len(rw.out) - 1) : rw.out[k + 1] = rw.out[k]

\* A URL with exactly one occurrence has been rewritten twice.
C2_Witness ==
  /\ rw.n = 2
  /\ Cardinality(Occurrences(rw.u, ChatCompletions)) = 1
  /\ rw.out[2] # rw.u
  /\ rw.out[3] = rw.out[2]

\* ---------------------------------------------------------------- C3
\* C3: the call issued to the underlying fetch carries the same method,
\* headers, body and options as the call the caller made, for string, URL
\* and Request targets alike.
C3_RequestPassesThrough ==
  \A r \in ReqIds : \A k \in 1..Len(net[r]) :
    /\ net[r][k].init = inv[r].args[2]
    /\ EffectiveRequest(StringInput(net[r][k].url), net[r][k].init)
         = EffectiveRequest(inv[r].args[1], inv[r].args[2])

\* ---------------------------------------------------------------- C4
\* C4: when the underlying fetch fails, the invocation fails with that same
\* error, and it has called the underlying fetch exactly once.
C4_ErrorPropagates ==
  \A r \in ReqIds :
    /\ Len(net[r]) <= 1
    /\ inv[r].pc \in {"fetching", "settled", "returned"} => Len(net[r]) = 1
    /\ (inv[r].pc = "returned" /\ inv[r].outcome[1].kind = "rejected")
         => /\ inv[r].result[1].kind = "rejected"
            /\ inv[r].result[1].value = inv[r].outcome[1].value

\* An invocation has returned after its underlying fetch was rejected.
C4_Witness ==
  /\ inv[1].pc = "returned"
  /\ inv[1].outcome[1] = [kind |-> "rejected", value |-> "AbortError"]

\* ---------------------------------------------------------------- C5
\* C5: the base URL handed to the external client is config.baseURL without
\* a trailing '/invocations' or '/invocations/', and config.baseURL itself
\* when it ends with neither.
C5_BaseURLNormalized ==
  fac.client # <<>> =>
    LET b == fac.config[1].baseURL
        c == fac.client[1].baseURL
    IN IF EndsWith(b, Invocations \o Slash)
       THEN c = DropLast(b, Len(Invocations) + 1)
       ELSE IF EndsWith(b, Invocations)
       THEN c = DropLast(b, Len(Invocations))
       ELSE c = b

\* createDatabricksProvider got a base URL ending '/invocations/invocations/'.
C5_Witness ==
  /\ fac.op = "direct"
  /\ fac.client # <<>>
  /\ EndsWith(fac.config[1].baseURL, Invocations \o Invocations \o Slash)

\* ---------------------------------------------------------------- C6
\* C6: with API_KEY or BASE_URL unset or empty, createDatabricksProviderFromEnv
\* throws; the message names a variable that is missing, API_KEY whenever
\* API_KEY is missing; no provider is constructed and no network call made.
C6_MissingEnvFailsFast ==
  (fac.op = "fromEnv"
     /\ (env.API_KEY \in {<<>>, << <<>> >>} \/ env.BASE_URL \in {<<>>, << <<>> >>}))
  => /\ fac.pc = "threw"
     /\ fac.error # <<>>
     /\ LET msg == fac.error[1]
            namesKey == Occurrences(msg, <<"A","P","I","_","K","E","Y">>) # {}
            namesUrl == Occurrences(msg, <<"B","A","S","E","_","U","R","L">>) # {}
        IN /\ namesKey \/ namesUrl
           /\ namesKey => env.API_KEY \in {<<>>, << <<>> >>}
           /\ namesUrl => env.BASE_URL \in {<<>>, << <<>> >>}
           /\ env.API_KEY \in {<<>>, << <<>> >>} => namesKey
     /\ fac.client = <<>>
     /\ \A r \in ReqIds : net[r] = <<>>

\* createDatabricksProviderFromEnv ran with an empty API_KEY and a set BASE_URL.
C6_Witness ==
  /\ fac.op = "fromEnv"
  /\ env.API_KEY = << <<>> >>
  /\ env.BASE_URL \notin {<<>>, << <<>> >>}
  /\ fac.pc = "threw"

\* ---------------------------------------------------------------- C7
\* C7: with API_KEY and BASE_URL set and non-empty,
\* createDatabricksProviderFromEnv(name) hands the external client the same
\* arguments as createDatabricksProvider({baseURL: BASE_URL, apiKey: API_KEY,
\* name}).
C7_FromEnvEquivalent ==
  (fac.op = "fromEnv"
     /\ env.API_KEY \notin {<<>>, << <<>> >>}
     /\ env.BASE_URL \notin {<<>>, << <<>> >>})
  => /\ fac.pc # "threw"
     /\ fac.client =
          <<createDatabricksProvider(
              [baseURL |-> env.BASE_URL[1], apiKey |-> env.API_KEY[1],
               headers |-> <<>>, name |-> fac.name])>>

\* createDatabricksProviderFromEnv('n') succeeded with a BASE_URL ending in
\* '/invocations'.
C7_Witness ==
  /\ fac.op = "fromEnv"
  /\ fac.pc = "constructed"
  /\ fac.name = << <<"n">> >>
  /\ EndsWith(env.BASE_URL[1], Invocations)
  /\ fac.client[1].name = <<"n">>

\* ---------------------------------------------------------------- C8
\* C8 as stated: every request whose URL path ends in '/chat/completions' is
\* transmitted with a path ending in '/invocations' and the same query
\* string, also when '/chat/completions' occurs earlier in the URL.
C8_PathEndRewrittenAlways ==
  \A r \in ReqIds : \A k \in 1..Len(net[r]) :
    LET s == StringForm(inv[r].args[1])
        t == net[r][k].url
    IN EndsWith(PathOf(s), ChatCompletions)
         => /\ EndsWith(PathOf(t), Invocations)
            /\ QueryOf(t) = QueryOf(s)

\* C8 amended: every request whose URL path ends in '/chat/completions', with
\* no earlier occurrence of '/chat/completions' in the URL, is transmitted
\* with a path ending in '/invocations' and the same query string.
C8_PathEndRewrittenWhenFirst ==
  \A r \in ReqIds : \A k \in 1..Len(net[r]) :
    LET s == StringForm(inv[r].args[1])
        t == net[r][k].url
        last == QueryStart(s) - Len(ChatCompletions)
    IN (/\ EndsWith(PathOf(s), ChatCompletions)
        /\ \A j \in Occurrences(s, ChatCompletions) : j >= last)
         => /\ EndsWith(PathOf(t), Invocations)
            /\ QueryOf(t) = QueryOf(s)

\* A transmitted URL whose path ended in the only '/chat/completions' of the
\* path and whose query string holds another one.
C8_Witness ==
  /\ Len(net[1]) = 1
  /\ LET s == StringForm(inv[1].args[1])
     IN /\ EndsWith(PathOf(s), ChatCompletions)
        /\ Cardinality(Occurrences(PathOf(s), ChatCompletions)) = 1
        /\ Occurrences(QueryOf(s), ChatCompletions) # {}
        /\ EndsWith(PathOf(net[1][1].url), Invocations)

\* ---------------------------------------------------------------- C9
\* C9: under any interleaving of concurrent invocations, the URL and options
\* each one transmits and the outcome it returns are determined by its own
\* target, options and underlying call alone.
C9_InvocationsIndependent ==
  \A r \in ReqIds :
    LET pc == inv[r].pc
        s == StringForm(inv[r].args[1])
        occ == Occurrences(s, ChatCompletions)
        sent == IF occ = {} THEN s
                ELSE LET i == CHOOSE i \in occ : \A j \in occ : i <= j
                     IN SubSeq(s, 1, i - 1) \o Invocations
                          \o SubSeq(s, i + Len(ChatCompletions), Len(s))
    IN /\ pc = "idle" => net[r] = <<>>
       /\ pc = "converted" => inv[r].url = s
       /\ pc \in {"rewritten", "fetching", "settled", "returned"}
            => inv[r].url = sent
       /\ pc \in {"called", "converted", "rewritten"} => net[r] = <<>>
       /\ pc \in {"fetching", "settled", "returned"}
            => net[r] = <<[url |-> sent, init |-> inv[r].args[2]]>>
       /\ pc = "returned" => inv[r].result = inv[r].outcome

\* Two invocations with different targets have both returned, one rejected
\* and one fulfilled.
C9_Witness ==
  /\ inv[1].pc = "returned"
  /\ inv[2].pc = "returned"
  /\ inv[1].args[1] # inv[2].args[1]
  /\ inv[1].result[1].kind = "rejected"
  /\ inv[2].result[1].kind = "fulfilled"

\* ---------------------------------------------------------------- C10
\* The chat request of the provider was transmitted to root \o '/invocations'
\* whenever the provider's base URL was root, root \o '/invocations' or
\* root \o '/invocations/'.
SentToRoot(root) ==
  (/\ fac.pc = "sent"
   /\ fac.config[1].baseURL \in
        {root, root \o Invocations, root \o Invocations \o Slash})
  => net[1] # <<>> /\ net[1][1].url = root \o Invocations

\* The strings root of which base is root, root \o '/invocations' or
\* root \o '/invocations/'.
RootsOf(base) ==
  {base}
    \cup (IF EndsWith(base, Invocations)
          THEN {DropLast(base, Len(Invocations))} ELSE {})
    \cup (IF EndsWith(base, Invocations \o Slash)
          THEN {DropLast(base, Len(Invocations) + 1)} ELSE {})

\* C10 as stated: for every serving-endpoint root R, providers created with
\* R, R + '/invocations' and R + '/invocations/' transmit the chat request to
\* R + '/invocations'.
C10_SameEndpointEveryRoot ==
  fac.config # <<>> =>
    \A root \in RootsOf(fac.config[1].baseURL) : SentToRoot(root)

\* C10 amended: the same, for every root R that holds no '/chat/completions'
\* and does not itself end in '/invocations' or '/invocations/'.
C10_SameEndpointPlainRoot ==
  fac.config # <<>> =>
    \A root \in RootsOf(fac.config[1].baseURL) :
      (/\ Occurrences(root, ChatCompletions) = {}
       /\ ~EndsWith(root, Invocations)
       /\ ~EndsWith(root, Invocations \o Slash))
      => SentToRoot(root)

\* A provider built from root \o '/invocations/' has sent its chat request.
C10_Witness ==
  /\ fac.pc = "sent"
  /\ fac.config[1].baseURL = EndpointRoot \o Slash \o Invocations \o Slash
  /\ net[1][1].url = EndpointRoot \o Slash \o Invocations

====
